---- MODULE Spec2Model ----
(***************************************************************************)
(* csvparser: the streaming record pipeline of CsvProcessor::process       *)
(* (src/src/processor.rs, src/src/config.rs, src/src/stats.rs) and the     *)
(* producer/consumer hand-off of StreamingCsvReader::process_chunks        *)
(* (src/src/stream.rs).                                                    *)
(*                                                                         *)
(* Text is modelled as a sequence of integer tokens, one token per field   *)
(* value, COMMA for the delimiter and NEWLINE for the line terminator.     *)
(* The value of column j of input line i is Cell(i, j); line 0 is the      *)
(* header.  A data line is either its number of fields, or BAD: a line for *)
(* which the csv reader's iterator yields Err (e.g. invalid UTF-8).        *)
(***************************************************************************)
EXTENDS Integers, Sequences, FiniteSets, TLC

\* ------------------------------------------------------------------ bounds
MaxLines == 2      \* data lines in the input
MaxWidth == 2      \* fields per line
MaxFields == 2     \* length of the configured field list
MaxBytes == 4      \* bytes of the chunked input
MaxChunk == 2      \* largest buffer_size of the chunked reader
MaxOps == 2        \* ProcessingStats calls per execution context

\* --------------------------------------------------------------- constants
COMMA == 0
NEWLINE == 1

BAD == -1          \* a line the csv reader yields Err for
EMPTY == 0         \* no header line: the stream has no bytes
NONE == "none"

\* Option<Vec<usize>>
None == [some |-> FALSE, v |-> <<>>]
Some(s) == [some |-> TRUE, v |-> s]

\* the value of column j of input line i (line 0 is the header)
Cell(i, j) == 10 * (i + 1) + j

\* Config::buffer_size, in tokens: smaller and larger than a two-field line
BufferSizes == {3, 6}
\* the 1-based indices a field list is drawn from
FieldIndexSet == 1 .. 3

\* every sequence over S of length lo..hi
SeqsOf(S, lo, hi) == UNION {[1 .. n -> S] : n \in lo .. hi}

Min(a, b) == IF a < b THEN a ELSE b

IsPrefix(s, t) == Len(s) <= Len(t) /\ SubSeq(t, 1, Len(s)) = s

VARIABLES
    config,             \* Config {input, output, fields, buffer_size, stats}
    inHeader,           \* input stream: EMPTY (no bytes), BAD, or header width
                        \* (data lines may be narrower: flexible(true))
    inLines,            \* input stream: data lines, each BAD or a width
    pc,                 \* position in process()/process_streaming()
    headers,            \* the parsed header record
    pos,                \* items taken from reader.records()
    record_count,       \* local counter of process_streaming
    records_processed,  \* ProcessingStats.records_processed
    wbuf,               \* bytes held in the BufWriter
    sink,               \* bytes that reached the file / stdout
    accepted,           \* bytes of the write_all calls that returned Ok
    result,             \* what process() returned
    inputOpened,        \* File::open / stdin() calls made
    outputOpened,       \* File::create / stdout() calls made
    sinkFailed,         \* the sink has reported a write error
    warnings,           \* warn! diagnostics emitted
    statsPrinted,
    openErr,            \* which open failed: NONE, "input" or "output"
    record,             \* the record (or header) of the current iteration
    row,                \* the fields selected from it and written
    outFile,            \* the named output file: "none" (stdout is used),
                        \* "absent", "old" (holds earlier content) or
                        \* "empty" (created or truncated by this run)
    \* ---- process_chunks
    cInput,             \* bytes of the chunked input
    cBufSize,           \* buffer_size
    rpos,               \* bytes read so far
    chunk,              \* the producer's current chunk (buffer[..n].to_vec())
    queue,              \* mpsc channel content
    txAlive,            \* the Sender exists
    rxAlive,            \* the Receiver exists
    ppc,                \* producer (calling thread) position
    cpc,                \* consumer thread position
    cur,                \* chunk the handler is running on
    sent,               \* chunks whose send returned Ok
    handled,            \* chunks passed to the handler
    cres,               \* consumer thread outcome
    pret,               \* what process_chunks returned
    readFailed,         \* a read of the input returned Err
    failedAt,           \* chunks handled when the handler first returned Err
    \* ---- ProcessingStats under concurrent callers, Config::field_indices
    bytes_processed,    \* ProcessingStats.bytes_processed
    opsLeft,            \* calls each execution context has still to make
    base,               \* per counter: the value of the last store
    added,              \* per counter: the sum of the adds since that store
    reads,              \* per counter: <<previous, latest>> value read
    readExp,            \* value the completed updates had produced at the
                        \* latest read
    offsets             \* the result of the last Config::field_indices call

pvars == <<config, inHeader, inLines, pc, headers, pos, record_count,
           records_processed, wbuf, sink, accepted, result, inputOpened,
           outputOpened, sinkFailed, warnings, statsPrinted, openErr, record,
           row, outFile>>

cvars == <<cInput, cBufSize, rpos, chunk, queue, txAlive, rxAlive, ppc, cpc,
           cur, sent, handled, cres, pret, readFailed, failedAt>>

svars == <<bytes_processed, opsLeft, base, added, reads, readExp, offsets>>

vars == <<pvars, cvars, svars>>

\* ------------------------------------------------------------- config.rs
\* mutant of SaturatingSub1: a plain decrement, below zero for f = 0
SaturatingSub1_plain(f) == f - 1

\* usize::saturating_sub(1)
SaturatingSub1(f) == IF f = 0 THEN 0 ELSE f - 1

\* Config::field_indices
field_indices(cfg) ==
    IF ~cfg.fields.some THEN None
    ELSE Some([k \in 1 .. Len(cfg.fields.v) |-> SaturatingSub1(cfg.fields.v[k])])

\* ---------------------------------------------------------- processor.rs
\* mutant of Get: an out-of-range offset is padded with an empty value
Get_pad(rec, i) == IF i < Len(rec) THEN <<rec[i + 1]>> ELSE <<COMMA>>

\* StringRecord::get(i), 0-based: <<value>>, or <<>> when out of range
Get(rec, i) == IF i < Len(rec) THEN <<rec[i + 1]>> ELSE <<>>

\* indices.iter().filter_map(|&i| rec.get(i)).collect()
RECURSIVE FilterMapGet(_, _)
FilterMapGet(rec, idx) ==
    IF idx = <<>> THEN <<>>
    ELSE Get(rec, Head(idx)) \o FilterMapGet(rec, Tail(idx))

\* the row written for a record (or the header) under the configuration
Select(rec, cfg) ==
    IF field_indices(cfg).some
    THEN FilterMapGet(rec, field_indices(cfg).v)
    ELSE rec

\* [..].join(",")
RECURSIVE Join(_)
Join(r) ==
    IF r = <<>> THEN <<>>
    ELSE IF Len(r) = 1 THEN <<r[1]>>
    ELSE <<r[1], COMMA>> \o Join(Tail(r))

\* format!("{}\n", fields.join(","))
Serialize(r) == Join(r) \o <<NEWLINE>>

\* the fields the csv reader parses from input line i of width w
Record(i, w) == [j \in 1 .. w |-> Cell(i, j)]

\* mutant of WriteAll: new bytes are placed in front of the buffered ones
WriteAll_front(cfg, buf, snk, bytes, sinkOk) ==
    IF cfg.output = NONE
    THEN IF sinkOk THEN <<buf, snk \o bytes, TRUE>> ELSE <<buf, snk, FALSE>>
    ELSE IF Len(bytes) + Len(buf) <= cfg.buffer_size
    THEN <<bytes \o buf, snk, TRUE>>
    ELSE IF sinkOk THEN <<<<>>, snk \o bytes \o buf, TRUE>>
    ELSE <<buf, snk, FALSE>>

\* BufWriter::write_all / Stdout::write_all: the new <<wbuf, sink, ok>>
\* when the sink accepts (sinkOk) or rejects the bytes it is handed
WriteAll(cfg, buf, snk, bytes, sinkOk) ==
    IF cfg.output = NONE
    THEN \* stdout: every write ends a line and goes through
         IF sinkOk THEN <<buf, snk \o bytes, TRUE>> ELSE <<buf, snk, FALSE>>
    ELSE IF Len(bytes) < cfg.buffer_size - Len(buf)
    THEN <<buf \o bytes, snk, TRUE>>
    ELSE IF Len(bytes) > cfg.buffer_size - Len(buf) /\ ~sinkOk
    THEN <<buf, snk, FALSE>>                       \* flush_buf()? failed
    ELSE LET b1 == IF Len(bytes) > cfg.buffer_size - Len(buf) THEN <<>> ELSE buf
             s1 == IF Len(bytes) > cfg.buffer_size - Len(buf) THEN snk \o buf ELSE snk
         IN IF Len(bytes) >= cfg.buffer_size
            THEN IF sinkOk THEN <<b1, s1 \o bytes, TRUE>>
                 ELSE <<b1, s1, FALSE>>
            ELSE <<b1 \o bytes, s1, TRUE>>

\* whether WriteAll hands anything to the sink
TouchesSink(cfg, buf, bytes) ==
    \/ cfg.output = NONE
    \/ Len(bytes) > cfg.buffer_size - Len(buf) /\ buf # <<>>
    \/ Len(bytes) >= cfg.buffer_size

\* BufWriter::drop: flush_buf() with the error ignored
DropWriter(buf, snk, sinkOk) ==
    IF buf # <<>> /\ sinkOk THEN <<<<>>, snk \o buf>> ELSE <<buf, snk>>

ConfigSet ==
    [input : {NONE, "in.csv"},
     output : {NONE, "out.csv"},
     fields : {None} \cup {Some(s) : s \in SeqsOf(FieldIndexSet, 1, MaxFields)},
     buffer_size : BufferSizes,
     stats : {TRUE}]

LineSet == {BAD} \cup (1 .. MaxWidth)

\* the execution contexts that share one ProcessingStats
Threads == {"main", "worker"}
Counters == {"records", "bytes"}

\* no field_indices call made yet
NotCalled == [called |-> FALSE, ret |-> None]

\* ProcessingStats::new, no call made
SInit ==
    /\ bytes_processed = 0
    /\ opsLeft = [t \in Threads |-> 0]
    /\ base = [c \in Counters |-> 0]
    /\ added = [c \in Counters |-> 0]
    /\ reads = [c \in Counters |-> <<0, 0>>]
    /\ readExp = [c \in Counters |-> 0]
    /\ offsets = NotCalled

CInit ==
    /\ cInput = <<>> /\ cBufSize = 1 /\ rpos = 0 /\ chunk = <<>>
    /\ queue = <<>> /\ txAlive = FALSE /\ rxAlive = FALSE
    /\ ppc = "idle" /\ cpc = "idle" /\ cur = <<>> /\ sent = <<>>
    /\ handled = <<>> /\ cres = NONE /\ pret = NONE /\ readFailed = FALSE
    /\ failedAt = 0

\* mutant of OpenOrder: the output is opened before the input
OpenOrder_swapped == <<"open_output", "open_input", "headers">>

\* process(): open_input()?, then open_output()?, then process_streaming
OpenOrder == <<"open_input", "open_output", "headers">>

\* the step that follows the open p
AfterOpen(p) == OpenOrder[1 + CHOOSE k \in 1 .. 2 : OpenOrder[k] = p]

\* File::create: the file exists and is empty
Create(f) == "empty"

PInit(cfgs) ==
    /\ config \in cfgs
    /\ outFile \in (IF config.output = NONE THEN {"none"} ELSE {"absent", "old"})
    /\ inHeader \in {EMPTY, BAD, MaxWidth}
    /\ inLines \in SeqsOf(LineSet, 0, MaxLines)
    /\ inHeader = EMPTY => inLines = <<>>
    /\ pc = OpenOrder[1]
    /\ headers = <<>>
    /\ pos = 0
    /\ record_count = 0
    /\ records_processed = 0
    /\ wbuf = <<>> /\ sink = <<>> /\ accepted = <<>>
    /\ result = NONE
    /\ inputOpened = 0 /\ outputOpened = 0
    /\ sinkFailed = FALSE
    /\ warnings = 0
    /\ statsPrinted = FALSE
    /\ openErr = NONE
    /\ record = <<>> /\ row = <<>>

Init == PInit(ConfigSet) /\ CInit /\ SInit

\* mutant of OpenFails: the failure is noted and the open is tried again
OpenFails_retry(which) ==
    /\ pc' = pc /\ result' = result /\ openErr' = which

\* `?` on a failed open: process() returns the I/O error
OpenFails(which) ==
    /\ pc' = "done" /\ result' = "Io" /\ openErr' = which

\* process(): let input_reader = self.open_input()?;
OpenInput ==
    /\ pc = "open_input"
    /\ inputOpened' = inputOpened + 1
    /\ \E ok \in BOOLEAN :
         /\ (config.input = NONE => ok)          \* io::stdin() cannot fail
         /\ IF ok THEN pc' = AfterOpen("open_input") /\ UNCHANGED <<result, openErr>>
                  ELSE OpenFails("input")
    /\ UNCHANGED <<config, inHeader, inLines, headers, pos, record_count,
                   records_processed, wbuf, sink, accepted, outputOpened,
                   sinkFailed, warnings, statsPrinted, record, row>>
    /\ UNCHANGED outFile
    /\ UNCHANGED cvars
    /\ UNCHANGED svars

\* process(): let output_writer = self.open_output()?;
OpenOutput ==
    /\ pc = "open_output"
    /\ outputOpened' = outputOpened + 1
    /\ \E ok \in BOOLEAN :
         /\ (config.output = NONE => ok)         \* io::stdout() cannot fail
         /\ IF ok THEN /\ pc' = AfterOpen("open_output")
                       /\ outFile' = (IF config.output = NONE THEN outFile
                                      ELSE Create(outFile))
                       /\ UNCHANGED <<result, openErr>>
                  ELSE OpenFails("output") /\ UNCHANGED outFile
    /\ UNCHANGED <<config, inHeader, inLines, headers, pos, record_count,
                   records_processed, wbuf, sink, accepted, inputOpened,
                   sinkFailed, warnings, statsPrinted, record, row>>
    /\ UNCHANGED cvars
    /\ UNCHANGED svars

\* process_streaming: let headers = reader.headers()?.clone();
\* csv::Reader::headers returns an empty record when the reader is at EOF
\* before any data, and Err when the first line cannot be read as text
ReadHeaders(h) ==
    IF h = BAD THEN <<FALSE, <<>>>>
    ELSE IF h = EMPTY THEN <<TRUE, <<>>>>
    ELSE <<TRUE, Record(0, h)>>

ParseHeader ==
    /\ pc = "headers"
    /\ LET r == ReadHeaders(inHeader)
       IN IF r[1]
          THEN /\ pc' = "write_header" /\ result' = result
               /\ headers' = r[2]
          ELSE /\ pc' = "done" /\ result' = "Csv"
               /\ headers' = headers
    /\ UNCHANGED <<config, inHeader, inLines, pos, record_count,
                   records_processed, wbuf, sink, accepted, inputOpened,
                   outputOpened, sinkFailed, warnings, statsPrinted, openErr,
                   record, row>>
    /\ UNCHANGED outFile
    /\ UNCHANGED cvars
    /\ UNCHANGED svars

\* one output_writer.write_all(line)?; on Err the function returns and the
\* writer is dropped
WriteLine(line, okPc) ==
    \E sinkOk \in BOOLEAN, dropOk \in BOOLEAN :
      LET w == WriteAll(config, wbuf, sink, line, sinkOk)
          d == DropWriter(w[1], w[2], dropOk)
      IN /\ (~TouchesSink(config, wbuf, line) => sinkOk)
         /\ (w[3] => dropOk)
         /\ IF w[3]
            THEN /\ wbuf' = w[1] /\ sink' = w[2]
                 /\ accepted' = accepted \o line
                 /\ pc' = okPc /\ result' = result
                 /\ sinkFailed' = sinkFailed
            ELSE /\ wbuf' = d[1] /\ sink' = d[2]
                 /\ accepted' = accepted
                 /\ pc' = "done" /\ result' = "Io"
                 /\ sinkFailed' = TRUE

\* mutant of HeaderRow: the header is written without the selection
HeaderRow_all(hdrs, cfg) == hdrs

\* the header row written: selected_headers, or every header
HeaderRow(hdrs, cfg) == Select(hdrs, cfg)

\* process_streaming: write the (selected) header line
WriteHeader ==
    /\ pc = "write_header"
    /\ record' = headers
    /\ row' = HeaderRow(headers, config)
    /\ WriteLine(Serialize(row'), "records")
    /\ UNCHANGED <<config, inHeader, inLines, headers, pos, record_count,
                   records_processed, inputOpened, outputOpened, warnings,
                   statsPrinted, openErr>>
    /\ UNCHANGED outFile
    /\ UNCHANGED cvars
    /\ UNCHANGED svars

\* mutant of OnRecordErr: a row-level parse error ends the run
OnRecordErr_abort ==
    /\ warnings' = warnings + 1
    /\ pc' = "done" /\ result' = "Csv"
    /\ UNCHANGED <<wbuf, sink, accepted, sinkFailed, record_count,
                   records_processed, record, row>>

\* Err(e) => { warn!("CSV parsing error: {}", e); continue; }
OnRecordErr ==
    /\ warnings' = warnings + 1
    /\ UNCHANGED <<pc, result, wbuf, sink, accepted, sinkFailed,
                   record_count, records_processed, record, row>>

\* Ok(record) => select, write, record_count += 1, update the statistics
OnRecordOk(rec) ==
    /\ record' = rec
    /\ row' = Select(rec, config)
    /\ WriteLine(Serialize(row'), "records")
    /\ IF pc' = "records"
       THEN /\ record_count' = record_count + 1
            /\ records_processed' = record_count'   \* update_records_processed
       ELSE UNCHANGED <<record_count, records_processed>>
    /\ warnings' = warnings

\* process_streaming: one iteration of `for result in reader.records()`
NextRecord ==
    /\ pc = "records"
    /\ pos < Len(inLines)
    /\ pos' = pos + 1
    /\ IF inLines[pos + 1] = BAD
       THEN OnRecordErr
       ELSE OnRecordOk(Record(pos + 1, inLines[pos + 1]))
    /\ UNCHANGED <<config, inHeader, inLines, headers, inputOpened,
                   outputOpened, statsPrinted, openErr>>
    /\ UNCHANGED outFile
    /\ UNCHANGED cvars
    /\ UNCHANGED svars

\* mutant of FlushWriter: the explicit flush is left out
FlushWriter_skip(buf, snk, sinkOk) == <<buf, snk, TRUE>>

\* BufWriter::flush / Stdout::flush: the new <<wbuf, sink, ok>>
FlushWriter(buf, snk, sinkOk) ==
    IF buf = <<>> THEN <<buf, snk, TRUE>>
    ELSE IF sinkOk THEN <<<<>>, snk \o buf, TRUE>>
    ELSE <<buf, snk, FALSE>>

\* process_streaming: the iterator is exhausted; output_writer.flush()?;
\* Ok(()); the writer is dropped on either return
Flush ==
    /\ pc = "records"
    /\ pos = Len(inLines)
    /\ \E sinkOk \in BOOLEAN, dropOk \in BOOLEAN :
         LET f == FlushWriter(wbuf, sink, sinkOk)
             d == DropWriter(f[1], f[2], dropOk)
         IN /\ (wbuf = <<>> => sinkOk)
            /\ wbuf' = d[1] /\ sink' = d[2]
            /\ IF f[3]
               THEN /\ pc' = "finish" /\ result' = result
                    /\ sinkFailed' = sinkFailed
               ELSE /\ pc' = "done" /\ result' = "Io"
                    /\ sinkFailed' = TRUE
    /\ UNCHANGED <<config, inHeader, inLines, headers, pos, record_count,
                   records_processed, accepted, inputOpened, outputOpened,
                   warnings, statsPrinted, openErr, record, row>>
    /\ UNCHANGED outFile
    /\ UNCHANGED cvars
    /\ UNCHANGED svars

\* process(): after process_streaming returned Ok: print_stats, Ok(())
Finish ==
    /\ pc = "finish"
    /\ statsPrinted' = config.stats
    /\ pc' = "done" /\ result' = "Ok"
    /\ UNCHANGED <<config, inHeader, inLines, headers, pos, record_count,
                   records_processed, wbuf, sink, accepted, inputOpened,
                   outputOpened, sinkFailed, warnings, openErr, record, row>>
    /\ UNCHANGED outFile
    /\ UNCHANGED cvars
    /\ UNCHANGED svars

Next ==
    \/ OpenInput
    \/ OpenOutput
    \/ ParseHeader
    \/ WriteHeader
    \/ NextRecord
    \/ Flush
    \/ Finish

Spec == Init /\ [][Next]_vars

\* ================================================================ claims
\* what the claims compare the run against, stated without the operators
\* of the model of the selection

\* the header of the input as the csv reader parses it
InputHeader == IF inHeader >= 1 THEN [j \in 1 .. inHeader |-> Cell(0, j)] ELSE <<>>

\* the configured zero-based offsets
Offsets == field_indices(config).v

MaxOf(sq) == CHOOSE m \in {sq[k] : k \in 1 .. Len(sq)} : \A k \in 1 .. Len(sq) : sq[k] <= m

\* the values of rec at the offsets that are in range, in requested order
Picked(rec, off) ==
    LET keep == {k \in 1 .. Len(off) : off[k] < Len(rec)}
        Nth(n) == CHOOSE k \in keep : Cardinality({j \in keep : j <= k}) = n
    IN [n \in 1 .. Cardinality(keep) |-> rec[off[Nth(n)] + 1]]

ExpectedRow(rec) == IF config.fields.some THEN Picked(rec, Offsets) ELSE rec

\* the output lines of the first k data lines of the input
RECURSIVE ExpectedData(_)
ExpectedData(k) ==
    IF k = 0 THEN <<>>
    ELSE ExpectedData(k - 1) \o
         (IF inLines[k] = BAD THEN <<>>
          ELSE Serialize(ExpectedRow(Record(k, inLines[k]))))

ExpectedHeader == Serialize(ExpectedRow(InputHeader))

WellFormed(k) == {i \in 1 .. k : inLines[i] # BAD}

Newlines(bytes) == Cardinality({k \in 1 .. Len(bytes) : bytes[k] = NEWLINE})

\* C1: for an input of a header line and data lines, some malformed, on a
\* sink that accepts every write: the loop goes past each malformed line
\* (after pos items the output holds the header and exactly the well-formed
\* lines among them), the run returns Ok, every well-formed line reached
\* the output, and record_count and records_processed equal the number of
\* well-formed lines.
C1_MalformedLinesSkipped ==
    (inHeader >= 1 /\ openErr = NONE /\ ~sinkFailed) =>
        /\ pc = "records" =>
             /\ accepted = ExpectedHeader \o ExpectedData(pos)
             /\ record_count = Cardinality(WellFormed(pos))
        /\ pc = "done" =>
             /\ result = "Ok"
             /\ pos = Len(inLines)
             /\ sink = ExpectedHeader \o ExpectedData(Len(inLines))
             /\ record_count = Cardinality(WellFormed(Len(inLines)))
             /\ records_processed = record_count
             /\ warnings = Len(inLines) - record_count

C1_Witness ==
    /\ pc = "done" /\ result = "Ok"
    /\ \E i, j \in 1 .. Len(inLines) :
         i < j /\ inLines[i] = BAD /\ inLines[j] # BAD
    /\ record_count >= 1 /\ record_count < Len(inLines)

\* C2: output order is input order: what the writer accepted is always an
\* initial part of the header line followed by the lines of the well-formed
\* records in input order, with or without selection, and what reached the
\* sink is an initial part of what the writer accepted.
C2_OutputInInputOrder ==
    /\ IsPrefix(accepted, ExpectedHeader \o ExpectedData(Len(inLines)))
    /\ IsPrefix(sink, accepted)

C2_Witness ==
    /\ pc = "done" /\ result = "Ok"
    /\ config.fields.some
    /\ record_count >= 2
    /\ row # <<>>
    /\ config.output # NONE

\* the last iteration selected fields from a parsed data record
SelectedFromRecord ==
    /\ config.fields.some
    /\ pc \in {"records", "finish", "done"}
    /\ pos >= 1
    /\ inLines[pos] # BAD

\* C3 (as claimed): a record with at least as many fields as the maximum
\* requested offset yields exactly len(offsets) values in requested order.
C3_AsClaimed ==
    (SelectedFromRecord /\ ~sinkFailed) =>
        (Len(record) >= MaxOf(Offsets) =>
            /\ Len(row) = Len(Offsets)
            /\ \A k \in 1 .. Len(Offsets) : row[k] = record[Offsets[k] + 1])

\* C3 (amended): a record with more fields than the maximum requested
\* zero-based offset yields exactly len(offsets) values in requested order,
\* a repeated offset giving a repeated value; in general the row is the
\* values at the in-range offsets in requested order, never longer than
\* the offsets (no padding), and empty when every offset is out of range.
C3_Projection ==
    SelectedFromRecord =>
        /\ Len(record) > MaxOf(Offsets) =>
             /\ Len(row) = Len(Offsets)
             /\ \A k \in 1 .. Len(Offsets) : row[k] = record[Offsets[k] + 1]
        /\ row = Picked(record, Offsets)
        /\ Len(row) = Cardinality({k \in 1 .. Len(Offsets) : Offsets[k] < Len(record)})
        /\ (\A k \in 1 .. Len(Offsets) : Offsets[k] >= Len(record)) => row = <<>>

C3_Witness ==
    /\ SelectedFromRecord
    /\ Len(Offsets) = 2 /\ Offsets[1] = Offsets[2]
    /\ Len(record) > MaxOf(Offsets)
    /\ Len(row) = 2 /\ row[1] = row[2]

\* C4: the first line written is the input header selected by the offsets
\* (the whole header without a field list), in the order of the offsets;
\* it is the only line written that is not the line of a record, and it is
\* written before any item is taken from the record iterator.
C4_HeaderFirstOnce ==
    /\ accepted # <<>> =>
         /\ IsPrefix(ExpectedHeader, accepted)
         /\ Newlines(accepted) = 1 + record_count
    /\ pos > 0 => accepted # <<>>
    /\ (pc \in {"records", "finish"} \/ result = "Ok") => accepted # <<>>

C4_Witness ==
    /\ pc = "records" /\ pos = 0
    /\ config.fields.some
    /\ Len(row) = 2 /\ row[1] > row[2]
    /\ accepted = Serialize(row)

\* C5 (as claimed): on an empty input stream process() returns an error and
\* nothing is written to the output.
C5_EmptyInputFails ==
    (inHeader = EMPTY /\ pc = "done" /\ ~sinkFailed) =>
        /\ result # "Ok"
        /\ accepted = <<>>
        /\ sink = <<>>

\* C6: when an open fails, process() has returned the I/O error in that
\* very step: each open was attempted at most once (the output not at all
\* when the input failed), no header was parsed, no record taken, nothing
\* written, and both record counters are 0.
C6_OpenFailureFatal ==
    openErr # NONE =>
        /\ pc = "done" /\ result = "Io"
        /\ inputOpened = 1
        /\ outputOpened = (IF openErr = "input" THEN 0 ELSE 1)
        /\ headers = <<>> /\ record = <<>> /\ pos = 0 /\ warnings = 0
        /\ accepted = <<>> /\ wbuf = <<>> /\ sink = <<>>
        /\ record_count = 0 /\ records_processed = 0

C6_Witness ==
    /\ openErr = "output"
    /\ pc = "done" /\ result = "Io"
    /\ inHeader >= 1 /\ Len(inLines) >= 1

\* process_streaming has returned
StreamingReturned ==
    /\ openErr = NONE
    /\ pc \in {"finish", "done"}

\* C7 (as claimed): whenever process_streaming returns, every byte the
\* writer accepted has reached the sink.
C7_AsClaimed == StreamingReturned => sink = accepted

\* C7 (amended): whenever process_streaming returns Ok, every byte the
\* writer accepted has reached the sink and the buffer is empty.
C7_FlushedOnSuccess ==
    (StreamingReturned /\ (pc = "finish" \/ result = "Ok")) =>
        /\ sink = accepted
        /\ wbuf = <<>>

C7_Witness ==
    /\ pc = "finish"
    /\ config.output # NONE
    /\ record_count >= 1
    /\ Len(accepted) < config.buffer_size
    /\ sink = accepted

\* ------------------------------------------------------------- stream.rs
ByteSet == {7, 8}

ChunkInit ==
    /\ cInput \in SeqsOf(ByteSet, 0, MaxBytes)
    /\ cBufSize \in 1 .. MaxChunk
    /\ rpos = 0 /\ chunk = <<>>
    /\ queue = <<>> /\ txAlive = TRUE /\ rxAlive = TRUE
    /\ ppc = "spawn" /\ cpc = "unborn" /\ cur = <<>> /\ sent = <<>>
    /\ handled = <<>> /\ cres = NONE /\ pret = NONE /\ readFailed = FALSE
    /\ failedAt = 0

\* the processor state while only process_chunks runs
PIdle ==
    /\ PInit({[input |-> NONE, output |-> NONE, fields |-> None,
               buffer_size |-> 3, stats |-> FALSE]})
    /\ inHeader = EMPTY

InitChunks == PIdle /\ ChunkInit /\ SInit

\* thread::spawn(move || ...)
Spawn ==
    /\ ppc = "spawn"
    /\ ppc' = "read" /\ cpc' = "recv"
    /\ UNCHANGED <<cInput, cBufSize, rpos, chunk, queue, txAlive, rxAlive,
                   cur, sent, handled, cres, pret, readFailed, failedAt>>
    /\ UNCHANGED pvars
    /\ UNCHANGED svars

\* self.reader.read(&mut buffer): Ok(0) at end of file, Ok(n), or Err(e)
\* mutant of OnReadErr: the error is swallowed and the loop reads on
OnReadErr_goOn(tx) == [ppc |-> "read", pret |-> NONE, tx |-> tx]

\* Err(e) => return Err(CsvError::Io(e)); the return drops tx
OnReadErr(tx) == [ppc |-> "returned", pret |-> "Io", tx |-> FALSE]

ReadChunk ==
    /\ ppc = "read"
    /\ \/ \* Err(e)
          /\ readFailed' = TRUE
          /\ ppc' = OnReadErr(txAlive).ppc
          /\ pret' = OnReadErr(txAlive).pret
          /\ txAlive' = OnReadErr(txAlive).tx
          /\ UNCHANGED <<rpos, chunk>>
       \/ \* Ok(0) => break
          /\ rpos = Len(cInput)
          /\ ppc' = "drop"
          /\ UNCHANGED <<rpos, chunk, pret, txAlive, readFailed>>
       \/ \* Ok(n) => chunk = buffer[..n].to_vec()
          /\ rpos < Len(cInput)
          /\ \E n \in 1 .. Min(cBufSize, Len(cInput) - rpos) :
               /\ chunk' = SubSeq(cInput, rpos + 1, rpos + n)
               /\ rpos' = rpos + n
          /\ ppc' = "send"
          /\ UNCHANGED <<pret, txAlive, readFailed>>
    /\ UNCHANGED <<cInput, cBufSize, queue, rxAlive, cpc, cur, sent, handled,
                   cres, failedAt>>
    /\ UNCHANGED pvars
    /\ UNCHANGED svars

\* if tx.send(chunk).is_err() { break; }
SendChunk ==
    /\ ppc = "send"
    /\ IF rxAlive
       THEN /\ queue' = Append(queue, chunk)
            /\ sent' = Append(sent, chunk)
            /\ ppc' = "read"
       ELSE /\ ppc' = "drop"
            /\ UNCHANGED <<queue, sent>>
    /\ chunk' = <<>>
    /\ UNCHANGED <<cInput, cBufSize, rpos, txAlive, rxAlive, cpc, cur,
                   handled, cres, pret, readFailed, failedAt>>
    /\ UNCHANGED pvars
    /\ UNCHANGED svars

\* mutant of DropSender: the Sender is still alive at the join
DropSender_keep(tx) == tx

\* drop(tx): whether the Sender exists afterwards
DropSender(tx) == FALSE

\* drop(tx); the join follows
DropTx ==
    /\ ppc = "drop"
    /\ txAlive' = DropSender(txAlive)
    /\ ppc' = "join"
    /\ UNCHANGED <<cInput, cBufSize, rpos, chunk, queue, rxAlive, cpc, cur,
                   sent, handled, cres, pret, readFailed, failedAt>>
    /\ UNCHANGED pvars
    /\ UNCHANGED svars

\* processor_handle.join().map_err(|_| CsvError::Threading(..))?
\* mutant of JoinReady: the result is reported without waiting for the thread
JoinReady_nowait(c) == TRUE

\* join() returns once the thread has terminated
JoinReady(c) == c = "exited"

\* mutant of JoinResult: only the thread's termination is looked at
JoinResult_ignoreInner(r) == IF r = "panic" THEN "Threading" ELSE "Ok"

\* mutant of JoinResult: the panic payload is dropped without map_err
JoinResult_panicOk(r) == IF r = "Err" THEN "Handler" ELSE "Ok"

\* join().map_err(|_| CsvError::Threading(..))?: Err(Threading) after a
\* panic, otherwise the thread's own Result
JoinResult(r) ==
    IF r = "panic" THEN "Threading"
    ELSE IF r = "Err" THEN "Handler" ELSE "Ok"

Join_ ==
    /\ ppc = "join"
    /\ JoinReady(cpc)
    /\ pret' = JoinResult(cres)
    /\ ppc' = "returned"
    /\ UNCHANGED <<cInput, cBufSize, rpos, chunk, queue, txAlive, rxAlive,
                   cpc, cur, sent, handled, cres, readFailed, failedAt>>
    /\ UNCHANGED pvars
    /\ UNCHANGED svars

\* mutant of Dequeue: the newest message is received first
Dequeue_lifo(q) == <<q[Len(q)], SubSeq(q, 1, Len(q) - 1)>>

\* rx.recv() on a non-empty channel: <<the oldest message, the rest>>
Dequeue(q) == <<Head(q), Tail(q)>>

\* rx.recv() returns Err: the channel is empty and the Sender is gone
RecvDisconnected(q, tx) == q = <<>> /\ ~tx

\* consumer: while let Ok(chunk) = rx.recv() { processor(chunk) .. }; Ok(())
Recv ==
    /\ cpc = "recv"
    /\ IF queue # <<>>
       THEN /\ cur' = Dequeue(queue)[1]
            /\ queue' = Dequeue(queue)[2]
            /\ handled' = Append(handled, cur')
            /\ cpc' = "handle"
            /\ UNCHANGED <<rxAlive, cres>>
       ELSE /\ RecvDisconnected(queue, txAlive)   \* recv() blocks otherwise
            /\ cpc' = "exited" /\ cres' = "Ok"
            /\ rxAlive' = FALSE
            /\ UNCHANGED <<cur, queue, handled>>
    /\ UNCHANGED <<cInput, cBufSize, rpos, chunk, txAlive, ppc, sent, pret,
                   readFailed, failedAt>>
    /\ UNCHANGED pvars
    /\ UNCHANGED svars

\* mutant of LeavesLoop: a handler error is ignored
LeavesLoop_panicOnly(outcome) == outcome = "panic"

\* if let Err(e) = processor(chunk) { return Err(e); }: a panic unwinds
LeavesLoop(outcome) == outcome # "Ok"

\* consumer: the handler returns Ok, returns Err(e), or panics
HandlerReturns ==
    /\ cpc = "handle"
    /\ \E outcome \in {"Ok", "Err", "panic"} :
         /\ failedAt' = (IF outcome = "Err" /\ failedAt = 0
                         THEN Len(handled) ELSE failedAt)
         /\ IF LeavesLoop(outcome)
            THEN /\ cpc' = "exited" /\ cres' = outcome
                 /\ rxAlive' = FALSE
                 /\ queue' = <<>>              \* dropped with the Receiver
            ELSE /\ cpc' = "recv"
                 /\ UNCHANGED <<cres, rxAlive, queue>>
    /\ cur' = <<>>
    /\ UNCHANGED <<cInput, cBufSize, rpos, chunk, txAlive, ppc, sent,
                   handled, pret, readFailed>>
    /\ UNCHANGED pvars
    /\ UNCHANGED svars

NextChunks ==
    \/ Spawn
    \/ ReadChunk
    \/ SendChunk
    \/ DropTx
    \/ Join_
    \/ Recv
    \/ HandlerReturns

SpecChunks == InitChunks /\ [][NextChunks]_vars

\* the scheduler runs both threads; reads and the handler terminate
FairChunks ==
    /\ WF_vars(Spawn) /\ WF_vars(ReadChunk) /\ WF_vars(SendChunk)
    /\ WF_vars(DropTx) /\ WF_vars(Join_)
    /\ WF_vars(Recv) /\ WF_vars(HandlerReturns)

FairSpecChunks == SpecChunks /\ FairChunks

\* ------------------------------------------------- claims: process_chunks
RECURSIVE Flatten(_)
Flatten(ss) == IF ss = <<>> THEN <<>> ELSE Head(ss) \o Flatten(Tail(ss))

\* C8: the chunks passed to the handler are always an initial part of the
\* chunks sent, which are the bytes read, in read order, cut into non-empty
\* chunks of at most buffer_size bytes; while the Receiver lives nothing is
\* lost between the two; and when process_chunks returns Ok the handler got
\* every chunk sent and these make up the whole input.
C8_ChunksFifo ==
    /\ IsPrefix(handled, sent)
    /\ rxAlive => handled \o queue = sent
    /\ IsPrefix(Flatten(sent), SubSeq(cInput, 1, rpos))
    /\ \A k \in 1 .. Len(sent) : Len(sent[k]) \in 1 .. cBufSize
    /\ pret = "Ok" => handled = sent /\ Flatten(handled) = cInput

C8_Witness ==
    /\ pret = "Ok"
    /\ Len(handled) >= 2
    /\ handled[1] # handled[2]

\* C9 (as claimed): if the handler fails on some chunk, the consumer stops
\* and that failure is what process_chunks returns.
C9_AsClaimed ==
    failedAt > 0 =>
        /\ Len(handled) = failedAt
        /\ pret # NONE => pret = "Handler"

\* C9 (amended): if the handler fails on some chunk, the consumer stops
\* (the handler is applied to no later chunk), and that failure is what
\* process_chunks returns unless a read of the input failed, in which case
\* it returns the I/O error.
C9_HandlerFailureStops ==
    failedAt > 0 =>
        /\ cpc = "exited" /\ cres = "Err"
        /\ Len(handled) = failedAt
        /\ pret \in {NONE, "Handler", "Io"}
        /\ pret = "Io" => readFailed
        /\ (ppc = "returned" /\ ~readFailed) => pret = "Handler"

C9_Witness ==
    /\ failedAt = 1
    /\ pret = "Handler"
    /\ Len(sent) > Len(handled)

\* C10: closing the channel never blocks the other side: once the Sender
\* is gone the consumer leaves its receive loop; a send after the consumer
\* has exited fails and takes the producer out of its read loop; and
\* process_chunks returns.
C10_NoDeadlock ==
    /\ [][(ppc = "send" /\ ~rxAlive /\ ppc' # ppc) =>
            (ppc' = "drop" /\ sent' = sent /\ rpos' = rpos)]_vars
    /\ (~txAlive) ~> (cpc = "exited")
    /\ <>(pret # NONE)

C10_Witness ==
    /\ ppc = "returned"
    /\ pret \in {"Handler", "Threading"}
    /\ rpos < Len(cInput)
    /\ Len(sent) >= 1

\* C11: process_chunks returns Ok only after the join: then the consumer
\* thread has terminated with Ok, no handler call is running, every byte of
\* the input was read and sent, and the handler returned Ok on every chunk.
C11_OkOnlyAfterJoin ==
    pret = "Ok" =>
        /\ cpc = "exited" /\ cres = "Ok"
        /\ cur = <<>> /\ chunk = <<>>
        /\ failedAt = 0
        /\ rpos = Len(cInput)
        /\ Len(handled) = Len(sent)
        /\ queue = <<>>
        /\ ~readFailed

C11_Witness ==
    /\ pret = "Ok" /\ ppc = "returned"
    /\ Len(cInput) = MaxBytes
    /\ Len(handled) >= 2

\* C12 (as claimed): when the handler panics, process_chunks returns the
\* Threading error and nothing else.
C12_AsClaimed ==
    (cres = "panic" /\ pret # NONE) => pret = "Threading"

\* C12 (amended): when the handler panics, process_chunks returns the
\* Threading error, never Ok nor the handler's error, unless a read of the
\* input failed, in which case it returns the I/O error; and Threading is
\* returned for a panic only.
C12_PanicIsThreading ==
    /\ cres = "panic" =>
         /\ pret \in {NONE, "Threading", "Io"}
         /\ pret = "Io" => readFailed
         /\ (ppc = "returned" /\ ~readFailed) => pret = "Threading"
    /\ pret = "Threading" => cres = "panic" /\ ~readFailed

C12_Witness ==
    /\ cres = "panic"
    /\ pret = "Threading"
    /\ Len(handled) >= 1

\* C13 (as claimed): the chunks sent and not yet received never exceed a
\* capacity that is independent of the input length; in particular the
\* queue never holds the whole of the longest input, one byte per chunk.
C13_QueueBounded == Len(queue) < MaxBytes

\* -------------------------------------------------------------- stats.rs
\* AtomicU64 arithmetic wraps at 2^64, scaled here to 2^2
U64Modulus == 4

\* the amounts and absolute values the callers pass
Amounts == 1 .. (U64Modulus - 1)
Values == 0 .. (U64Modulus - 1)

\* mutant of FetchAdd: the amount is stored instead of added
FetchAdd_store(cur_, n) == n % U64Modulus

\* AtomicU64::fetch_add(n, Relaxed): the new value
FetchAdd(cur_, n) == (cur_ + n) % U64Modulus

\* AtomicU64::store(n, Relaxed): the new value
Store(cur_, n) == n

\* AtomicU64::load(Relaxed)
Load(cur_) == cur_

InitStats ==
    /\ PIdle /\ CInit
    /\ bytes_processed = 0
    /\ opsLeft = [t \in Threads |-> MaxOps]
    /\ base = [c \in Counters |-> 0]
    /\ added = [c \in Counters |-> 0]
    /\ reads = [c \in Counters |-> <<0, 0>>]
    /\ readExp = [c \in Counters |-> 0]
    /\ offsets = NotCalled

\* everything of the processor but the shared records counter
pvarsButRecords ==
    <<config, inHeader, inLines, pc, headers, pos, record_count, wbuf, sink,
      accepted, result, inputOpened, outputOpened, sinkFailed, warnings,
      statsPrinted, openErr, record, row, outFile>>

\* one call by context t
Call(t) ==
    /\ opsLeft[t] > 0
    /\ opsLeft' = [opsLeft EXCEPT ![t] = @ - 1]
    /\ UNCHANGED <<pvarsButRecords, cvars, offsets>>

\* ProcessingStats::update_records_processed(count)
UpdateRecords ==
    \E t \in Threads, n \in Values :
        /\ Call(t)
        /\ records_processed' = Store(records_processed, n)
        /\ base' = [base EXCEPT !["records"] = n]
        /\ added' = [added EXCEPT !["records"] = 0]
        /\ UNCHANGED <<bytes_processed, reads, readExp>>

\* ProcessingStats::add_records_processed(count)
AddRecords ==
    \E t \in Threads, n \in Amounts :
        /\ Call(t)
        /\ records_processed' = FetchAdd(records_processed, n)
        /\ added' = [added EXCEPT !["records"] = @ + n]
        /\ UNCHANGED <<bytes_processed, base, reads, readExp>>

\* ProcessingStats::update_bytes_processed(bytes)
UpdateBytes ==
    \E t \in Threads, n \in Values :
        /\ Call(t)
        /\ bytes_processed' = Store(bytes_processed, n)
        /\ base' = [base EXCEPT !["bytes"] = n]
        /\ added' = [added EXCEPT !["bytes"] = 0]
        /\ UNCHANGED <<records_processed, reads, readExp>>

\* ProcessingStats::add_bytes_processed(bytes)
AddBytes ==
    \E t \in Threads, n \in Amounts :
        /\ Call(t)
        /\ bytes_processed' = FetchAdd(bytes_processed, n)
        /\ added' = [added EXCEPT !["bytes"] = @ + n]
        /\ UNCHANGED <<records_processed, base, reads, readExp>>

\* ProcessingStats::records_processed()
ReadRecords ==
    \E t \in Threads :
        /\ Call(t)
        /\ reads' = [reads EXCEPT !["records"] = <<@[2], Load(records_processed)>>]
        /\ readExp' = [readExp EXCEPT !["records"] =
                         (base["records"] + added["records"]) % U64Modulus]
        /\ UNCHANGED <<records_processed, bytes_processed, base, added>>

\* ProcessingStats::bytes_processed()
ReadBytes ==
    \E t \in Threads :
        /\ Call(t)
        /\ reads' = [reads EXCEPT !["bytes"] = <<@[2], Load(bytes_processed)>>]
        /\ readExp' = [readExp EXCEPT !["bytes"] =
                         (base["bytes"] + added["bytes"]) % U64Modulus]
        /\ UNCHANGED <<records_processed, bytes_processed, base, added>>

NextStats ==
    \/ UpdateRecords
    \/ AddRecords
    \/ UpdateBytes
    \/ AddBytes
    \/ ReadRecords
    \/ ReadBytes

SpecStats == InitStats /\ [][NextStats]_vars

\* C14: the adds are atomic: in every interleaving of calls from the two
\* contexts each counter equals its last stored value (0 at first) plus the
\* sum of all amounts added since, modulo 2^64, so no add is lost, also
\* when every call has been made; and a read returns the value the updates
\* completed before it had produced.
C14_AddsNotLost ==
    /\ records_processed = (base["records"] + added["records"]) % U64Modulus
    /\ bytes_processed = (base["bytes"] + added["bytes"]) % U64Modulus
    /\ \A c \in Counters : reads[c][2] = readExp[c]

C14_Witness ==
    /\ \A t \in Threads : opsLeft[t] = 0
    /\ base["records"] = 0
    /\ added["records"] > U64Modulus
    /\ records_processed = added["records"] - U64Modulus
    /\ reads["records"][2] > 0

\* C16 (as claimed): successive reads of records_processed() and of
\* bytes_processed() never decrease, whatever calls are made in between.
C16_ReadsMonotonic ==
    \A c \in Counters : reads[c][1] <= reads[c][2]

\* ------------------------------------------------------------- config.rs
\* every index a caller can configure, 0 included
FieldIndexAll == 0 .. (MaxFields + 1)

AllConfigs ==
    [input : {NONE, "in.csv"},
     output : {NONE, "out.csv"},
     fields : {None} \cup {Some(s) : s \in SeqsOf(FieldIndexAll, 0, MaxFields)},
     buffer_size : BufferSizes,
     stats : {TRUE}]

InitConfig ==
    /\ PInit(AllConfigs)
    /\ inHeader = EMPTY
    /\ CInit
    /\ bytes_processed = 0
    /\ opsLeft = [t \in Threads |-> 0]
    /\ base = [c \in Counters |-> 0]
    /\ added = [c \in Counters |-> 0]
    /\ reads = [c \in Counters |-> <<0, 0>>]
    /\ readExp = [c \in Counters |-> 0]
    /\ offsets = NotCalled

\* a call of Config::field_indices
CallFieldIndices ==
    /\ offsets' = [called |-> TRUE, ret |-> field_indices(config)]
    /\ UNCHANGED <<pvars, cvars>>
    /\ UNCHANGED <<bytes_processed, opsLeft, base, added, reads, readExp>>

NextConfig == CallFieldIndices

SpecConfig == InitConfig /\ [][NextConfig]_vars

\* C15: field_indices returns None for no selection, and otherwise a list
\* of the same length and order as the configured one in which every
\* value is the configured value less one, and 0 for a configured 0 (never
\* a value below zero).
C15_ZeroBased ==
    offsets.called =>
        /\ offsets.ret.some = config.fields.some
        /\ config.fields.some =>
              /\ Len(offsets.ret.v) = Len(config.fields.v)
              /\ \A k \in 1 .. Len(config.fields.v) :
                    /\ offsets.ret.v[k] >= 0
                    /\ config.fields.v[k] >= 1 =>
                          offsets.ret.v[k] + 1 = config.fields.v[k]
                    /\ config.fields.v[k] = 0 => offsets.ret.v[k] = 0

C15_Witness ==
    /\ offsets.called
    /\ config.fields = Some(<<0, MaxFields + 1>>)
    /\ offsets.ret = Some(<<0, MaxFields>>)

\* C17: the producer stops on end-of-stream and on a read error: once the
\* read loop is left (by a zero-length read, or by a failed send) no chunk
\* is sent any more and the channel is closed before the join; a failed
\* read ends process_chunks at once with the I/O error, the channel closed
\* and nothing sent afterwards.
C17_ProducerStops ==
    /\ [](readFailed => ppc = "returned" /\ pret = "Io" /\ ~txAlive)
    /\ [](ppc \in {"join", "returned"} => ~txAlive)
    /\ [][(ppc \in {"drop", "join", "returned"}) =>
             (sent' = sent /\ rpos' = rpos /\ Len(queue') <= Len(queue))]_vars

C17_Witness ==
    /\ readFailed
    /\ pret = "Io"
    /\ Len(sent) >= 1
    /\ rpos < Len(cInput)
    /\ handled = sent

\* C18 (as claimed): once process_chunks has returned, with any outcome,
\* the consumer has terminated and the handler is not running.
C18_AsClaimed ==
    pret # NONE => (cpc = "exited" /\ cur = <<>>)

\* C18 (amended): once process_chunks has returned through the join (Ok,
\* handler error or Threading) the consumer has terminated, and the
\* handler is neither running nor invoked afterwards; the remaining
\* outcome, Io, comes from a failed read alone.
C18_JoinedReturnTerminated ==
    /\ []((pret \in {"Ok", "Handler", "Threading"}) =>
             (cpc = "exited" /\ cur = <<>> /\ ~rxAlive))
    /\ []((pret \notin {NONE, "Ok", "Handler", "Threading"}) =>
             (pret = "Io" /\ readFailed))
    /\ [][(pret \in {"Ok", "Handler", "Threading"}) =>
             (handled' = handled /\ cpc' = cpc /\ cur' = cur)]_vars

C18_Witness ==
    /\ pret = "Threading"
    /\ cpc = "exited"
    /\ Len(handled) >= 1
    /\ Len(sent) > Len(handled)

\* C19: process() opens the input before the output: the output is never
\* opened unless the input has been opened with success, and while the
\* input is not open, and for good when opening it failed, the named
\* output file is as it was before the call: not created, not truncated,
\* nothing written.
C19_InputOpenedFirst ==
    /\ [](outputOpened >= 1 => (inputOpened = 1 /\ openErr # "input"))
    /\ []((openErr = "input" \/ inputOpened = 0) =>
             /\ outputOpened = 0
             /\ outFile # "empty"
             /\ sink = <<>> /\ wbuf = <<>>)
    /\ [][(openErr = "input" \/ inputOpened = 0) => outFile' = outFile]_vars

C19_Witness ==
    /\ openErr = "input"
    /\ result = "Io"
    /\ config.output # NONE
    /\ outFile = "old"
    /\ outputOpened = 0

====
